---- MODULE Spec2Model ----
(***************************************************************************)
(* Model of the commander-deck-generator browser client.                   *)
(*                                                                         *)
(* Spec        : the job monitor (the Process page, src/unnamed/part_001)  *)
(*               together with the router state it navigates.              *)
(* SpecResults : the result presenter's card classification (the Results   *)
(*               page, src/unnamed/part_000).                              *)
(* SpecExport  : the export actions of a Results page that shows a deck.   *)
(* SpecGenerator : the Generator page (src/unnamed/part_002) as the user   *)
(*               drives it.                                                *)
(* SpecSubmit  : the handler generateDeck applied in any state of the      *)
(*               Generator page.                                           *)
(* SpecInventory : the Inventory page's import                             *)
(*               (src/frontend/src/pages/Generator.jsx, from line 148).    *)
(*                                                                         *)
(* Each specification follows one page; the variables of the other pages   *)
(* stay as Init has them.                                                  *)
(*                                                                         *)
(* React state is modelled as variables; a handler (effect, callback,      *)
(* promise continuation, timer) is one atomic action, since the page runs  *)
(* on a single event loop.  The generation service is the environment: the *)
(* status it reports and the frames it streams are chosen freely.          *)
(* A stream frame is modelled after JSON.parse, as the object it denotes.  *)
(***************************************************************************)
EXTENDS Integers, Sequences, FiniteSets, TLC

VARIABLES
    page,          \* the route shown: "generator", "process" or "results"
    id,            \* the :id route parameter (useParams)
    act,           \* number of runs of the Process effect so far
    inst,          \* the run of the effect that mounted the live Process instance
    status,        \* Process: useState("pending")
    logs,          \* Process: useState([])
    sockets,       \* the WebSocket objects that have not been closed
    fetches,       \* the checkStatus requests still in flight
    timers,        \* the pending setTimeout callbacks, in firing order
    arrived,       \* history: the frames the live instance's handler received
    wsOpened,      \* history: the effect runs that constructed a WebSocket
    completedFetch,\* history: the effect runs whose status fetch said completed
    observed,      \* history: the job ids whose completion was observed
    timerNavs,     \* history: the effect runs a timer of which has navigated
    deck,          \* Results: useState(null)
    deckOf,        \* history: the job whose fetch the deck shown answered
    deckFetches,   \* Results: the fetchDeck requests of the mounted instance
    categories,    \* Results: the categories object of the last render
    clipboard,     \* the text written by navigator.clipboard.writeText, if any
    download,      \* the file saved through the synthetic anchor, if any
    prompt,        \* Generator: useState("")
    commander,     \* Generator: useState(null)
    loadingCmd,    \* Generator: useState(false)
    mode,          \* Generator: useState("Thinking")
    numAgents,     \* Generator: useState(1)
    numDecks,      \* Generator: useState(1)
    useOwned,      \* Generator: useState(false)
    cmdRequests,   \* the POST /generate/commander requests in flight
    deckRequests,  \* the POST /generate/deck requests in flight
    invCards,      \* Inventory: cards, useState([])
    importText,    \* Inventory: useState(""), as its lines
    error,         \* Inventory: useState(null)
    serverInv,     \* the card names the service holds in the inventory
    invRequests,   \* the inventory requests in flight
    called,        \* the handler the last step invoked, if it was a user action
    alerted,       \* the messages the last step showed with alert()
    failed,        \* the HTTP request whose failure the last step handled
    sent           \* the HTTP request the last step sent

\* the state of the Process page and its histories
mvars == <<act, inst, status, logs, sockets, fetches, timers, arrived,
           wsOpened, completedFetch, observed, timerNavs>>

\* the state of the Results page
rvars == <<deck, deckOf, deckFetches, categories>>

\* the side effects of the export actions
evars == <<clipboard, download>>

\* the state of the Generator page
gvars == <<prompt, commander, loadingCmd, mode, numAgents, numDecks, useOwned,
           cmdRequests, deckRequests>>

\* the state of the Inventory page and of the service's inventory
ivars == <<invCards, importText, error, serverInv, invRequests>>

\* what the last step did towards the user and the network
ovars == <<called, alerted, failed, sent>>

vars == <<page, id, mvars, rvars, evars, gvars, ivars, ovars>>

(***************************************************************************)
(* Bounds                                                                  *)
(***************************************************************************)
MaxJobs == 2
MaxActivations == 2
MaxLog == 2          \* frames in the log, and timers pending, at most

JobIds == 1..MaxJobs
Acts == 1..MaxActivations

(***************************************************************************)
(* Values                                                                  *)
(***************************************************************************)
Sentinel == "Deck generation complete."

\* null
Null == [null |-> TRUE]

\* a number as JavaScript holds it: NaN or an integer
NaN == [nan |-> TRUE, val |-> 0]

Num(n) == [nan |-> FALSE, val |-> n]

\* Job.status as the service reports it
Statuses == {"pending", "processing", "completed", "error"}

\* The frames the service may send, after JSON.parse.
Events ==
    { [timestamp |-> 1, agent_name |-> "System",  message |-> Sentinel,
       status |-> "processing"],
      [timestamp |-> 2, agent_name |-> "Agent 1", message |-> "Deck generation complete",
       status |-> "completed"] }

\* A mutation of IsSentinel: the frame's status field is trusted as well.
IsSentinelOrStatus(msg) == msg.message = Sentinel \/ msg.status = "completed"

\* msg.message === "Deck generation complete."
IsSentinel(msg) == msg.message = Sentinel

\* A mutation of AppendLog: a frame already in the log is not added again.
AppendLogDedup(prev, msg) ==
    IF \E i \in 1..Len(prev) : prev[i] = msg THEN prev ELSE Append(prev, msg)

\* prev => [...prev, msg]
AppendLog(prev, msg) == Append(prev, msg)

\* A mutation of Cleanup: the effect returns no cleanup function.
CleanupLeak(S) == S

\* return () => ws.close(): the socket of the latest effect run is closed
Cleanup(S) == { s \in S : s.act # act }

\* Is the component instance that created a closure still the mounted one?
Live(i) == page = "process" /\ inst = i

\* No Process instance has been mounted.
InitMonitor ==
    /\ act = 0
    /\ inst = 0
    /\ status = "pending"
    /\ logs = <<>>
    /\ sockets = {}
    /\ fetches = {}
    /\ timers = <<>>
    /\ arrived = <<>>
    /\ wsOpened = {}
    /\ completedFetch = {}
    /\ observed = {}
    /\ timerNavs = {}

\* No Results instance has been mounted.
InitResultsPage ==
    /\ deck = Null
    /\ deckOf = 0
    /\ deckFetches = {}
    /\ categories = Null

\* Nothing has been exported.
InitExported ==
    /\ clipboard = <<>>
    /\ download = <<>>

\* The Generator page as its useState calls construct it.
InitGenerator ==
    /\ prompt = ""
    /\ commander = Null
    /\ loadingCmd = FALSE
    /\ mode = "Thinking"
    /\ numAgents = Num(1)
    /\ numDecks = Num(1)
    /\ useOwned = FALSE
    /\ cmdRequests = <<>>
    /\ deckRequests = <<>>

\* The Inventory page as its useState calls construct it, not yet mounted.
InitInventory ==
    /\ invCards = {}
    /\ importText = <<>>
    /\ error = Null
    /\ serverInv = {}
    /\ invRequests = <<>>

\* No step has been taken.
InitOutputs ==
    /\ called = <<>>
    /\ alerted = <<>>
    /\ failed = <<>>
    /\ sent = <<>>

\* The application opens on the route "/".
Init ==
    /\ page = "generator"
    /\ id = 1
    /\ InitMonitor
    /\ InitResultsPage
    /\ InitExported
    /\ InitGenerator
    /\ InitInventory
    /\ InitOutputs

(***************************************************************************)
(* The body of the effect: checkStatus() is started and the WebSocket is   *)
(* constructed, for job j, by instance i, as run a of the effect.          *)
(***************************************************************************)
RunEffect(j, i, a, S) ==
    /\ fetches' = fetches \cup {[id |-> j, inst |-> i, act |-> a]}
    /\ sockets' = S \cup {[id |-> j, inst |-> i, act |-> a]}
    /\ wsOpened' = wsOpened \cup {a}

\* navigate(`/results/${j}`): the route changes; a mounted Process is
\* unmounted, which runs its effect's cleanup.
Navigate(j) ==
    /\ page' = "results"
    /\ id' = j
    /\ sockets' = IF page = "process" THEN Cleanup(sockets) ELSE sockets

\* The router shows /process/j: a new Process instance is mounted.
Mount(j) ==
    /\ page # "process"
    /\ act < MaxActivations
    /\ page' = "process"
    /\ id' = j
    /\ act' = act + 1
    /\ inst' = act + 1
    /\ status' = "pending"
    /\ logs' = <<>>
    /\ arrived' = <<>>
    /\ RunEffect(j, act + 1, act + 1, sockets)
    /\ UNCHANGED <<timers, completedFetch, observed, timerNavs>>
    /\ UNCHANGED <<rvars, evars, gvars, ivars, ovars>>

\* The :id parameter changes under the mounted instance (deps [id, navigate]):
\* the cleanup of the previous run, then the effect again.  State is kept.
ChangeId(j) ==
    /\ page = "process"
    /\ j # id
    /\ act < MaxActivations
    /\ id' = j
    /\ act' = act + 1
    /\ RunEffect(j, inst, act + 1, Cleanup(sockets))
    /\ UNCHANGED <<page, inst, status, logs, timers, arrived, completedFetch,
                   observed, timerNavs>>
    /\ UNCHANGED <<rvars, evars, gvars, ivars, ovars>>

\* The user follows a link of the navigation bar: Process unmounts.
Leave ==
    /\ page = "process"
    /\ page' = "generator"
    /\ sockets' = Cleanup(sockets)
    /\ UNCHANGED <<id, act, inst, status, logs, fetches, timers, arrived,
                   wsOpened, completedFetch, observed, timerNavs>>
    /\ UNCHANGED <<rvars, evars, gvars, ivars, ovars>>

\* The user leaves the results view.
LeaveResults ==
    /\ page = "results"
    /\ page' = "generator"
    /\ UNCHANGED <<id, act, inst, status, logs, sockets, fetches, timers,
                   arrived, wsOpened, completedFetch, observed, timerNavs>>
    /\ UNCHANGED <<rvars, evars, gvars, ivars, ovars>>

\* checkStatus resumes after the await with res.data.status = s.
FetchResponse(f, s) ==
    /\ f \in fetches
    /\ fetches' = fetches \ {f}
    /\ status' = IF Live(f.inst) THEN s ELSE status
    /\ IF s = "completed"
         THEN /\ Navigate(f.id)
              /\ completedFetch' = completedFetch \cup {f.act}
              /\ observed' = observed \cup {f.id}
         ELSE UNCHANGED <<page, id, sockets,
                          completedFetch, observed>>
    /\ UNCHANGED <<act, inst, logs, timers, arrived, wsOpened, timerNavs>>
    /\ UNCHANGED <<rvars, evars, gvars, ivars, ovars>>

\* checkStatus: the request fails; the catch block logs to the console.
FetchFail(f) ==
    /\ f \in fetches
    /\ fetches' = fetches \ {f}
    /\ UNCHANGED <<page, id, act, inst, status, logs, sockets, timers, arrived,
                   wsOpened, completedFetch, observed, timerNavs>>
    /\ UNCHANGED <<rvars, evars, gvars, ivars, ovars>>

\* A mutation of OnMessage: on the sentinel the status is set but no timer
\* is scheduled.
OnMessageNoTimer(s, msg) ==
    /\ s \in sockets
    /\ Len(logs) < MaxLog
    /\ IsSentinel(msg) => Len(timers) < MaxLog
    /\ logs' = IF Live(s.inst) THEN AppendLog(logs, msg) ELSE logs
    /\ arrived' = IF Live(s.inst) THEN Append(arrived, msg) ELSE arrived
    /\ status' = IF IsSentinel(msg) /\ Live(s.inst) THEN "completed" ELSE status
    /\ observed' = IF msg.message = Sentinel THEN observed \cup {s.id}
                                             ELSE observed
    /\ UNCHANGED <<page, id, act, inst, sockets, fetches, timers, wsOpened,
                   completedFetch, timerNavs>>
    /\ UNCHANGED <<rvars, evars, gvars, ivars, ovars>>

\* A mutation of OnMessage: on the sentinel it navigates at once, without
\* a timer.
OnMessageImmediate(s, msg) ==
    /\ s \in sockets
    /\ Len(logs) < MaxLog
    /\ IsSentinel(msg) => Len(timers) < MaxLog
    /\ logs' = IF Live(s.inst) THEN AppendLog(logs, msg) ELSE logs
    /\ arrived' = IF Live(s.inst) THEN Append(arrived, msg) ELSE arrived
    /\ IF IsSentinel(msg)
         THEN /\ status' = IF Live(s.inst) THEN "completed" ELSE status
              /\ Navigate(s.id)
         ELSE UNCHANGED <<status, page, id, sockets>>
    /\ observed' = IF msg.message = Sentinel THEN observed \cup {s.id}
                                             ELSE observed
    /\ UNCHANGED <<act, inst, fetches, timers, wsOpened, completedFetch,
                   timerNavs>>
    /\ UNCHANGED <<rvars, evars, gvars, ivars, ovars>>

\* ws.onmessage of socket s with the frame msg.
OnMessage(s, msg) ==
    /\ s \in sockets
    /\ Len(logs) < MaxLog
    /\ IsSentinel(msg) => Len(timers) < MaxLog
    /\ logs' = IF Live(s.inst) THEN AppendLog(logs, msg) ELSE logs
    /\ arrived' = IF Live(s.inst) THEN Append(arrived, msg) ELSE arrived
    /\ IF IsSentinel(msg)
         THEN /\ status' = IF Live(s.inst) THEN "completed" ELSE status
              /\ timers' = Append(timers, [id |-> s.id, act |-> s.act])
         ELSE UNCHANGED <<status, timers>>
    /\ observed' = IF msg.message = Sentinel THEN observed \cup {s.id}
                                             ELSE observed
    /\ UNCHANGED <<page, id, act, inst, sockets, fetches, wsOpened,
                   completedFetch, timerNavs>>
    /\ UNCHANGED <<rvars, evars, gvars, ivars, ovars>>

\* A mutation of RemoteClose: an onclose handler sets the status "error".
RemoteCloseError(s) ==
    /\ s \in sockets
    /\ sockets' = sockets \ {s}
    /\ status' = "error"
    /\ UNCHANGED <<page, id, act, inst, logs, fetches, timers, arrived,
                   wsOpened, completedFetch, observed, timerNavs>>
    /\ UNCHANGED <<rvars, evars, gvars, ivars, ovars>>

\* The service closes the stream; Process sets no onclose handler.
RemoteClose(s) ==
    /\ s \in sockets
    /\ sockets' = sockets \ {s}
    /\ UNCHANGED <<page, id, act, inst, status, logs, fetches, timers, arrived,
                   wsOpened, completedFetch, observed, timerNavs>>
    /\ UNCHANGED <<rvars, evars, gvars, ivars, ovars>>

\* The callback of setTimeout(..., 2000) runs.
TimerFire ==
    /\ timers # <<>>
    /\ timers' = Tail(timers)
    /\ Navigate(Head(timers).id)
    /\ timerNavs' = timerNavs \cup {Head(timers).act}
    /\ UNCHANGED <<act, inst, status, logs, fetches, arrived, wsOpened,
                   completedFetch, observed>>
    /\ UNCHANGED <<rvars, evars, gvars, ivars, ovars>>

\* The "View Results" button, rendered when status === "completed".
ViewResults ==
    /\ page = "process"
    /\ status = "completed"
    /\ Navigate(id)
    /\ UNCHANGED <<act, inst, status, logs, fetches, timers, arrived, wsOpened,
                   completedFetch, observed, timerNavs>>
    /\ UNCHANGED <<rvars, evars, gvars, ivars, ovars>>



Next ==
    \/ \E j \in JobIds : Mount(j)
    \/ \E j \in JobIds : ChangeId(j)
    \/ Leave
    \/ LeaveResults
    \/ \E f \in fetches, s \in Statuses : FetchResponse(f, s)
    \/ \E f \in fetches : FetchFail(f)
    \/ \E s \in sockets, msg \in Events : OnMessage(s, msg)
    \/ \E s \in sockets : RemoteClose(s)
    \/ TimerFire
    \/ ViewResults

Spec == Init /\ [][Next]_vars

\* the :id values the routes of the liveness specification take; any
\* further id only renames the behaviours over these two
LiveJobIds == {1, 2}

\* The steps of Next, with the routes over LiveJobIds
NextLive ==
    \/ \E j \in LiveJobIds : Mount(j)
    \/ \E j \in LiveJobIds : ChangeId(j)
    \/ Leave
    \/ LeaveResults
    \/ \E f \in fetches, s \in Statuses : FetchResponse(f, s)
    \/ \E f \in fetches : FetchFail(f)
    \/ \E s \in sockets, msg \in Events : OnMessage(s, msg)
    \/ \E s \in sockets : RemoteClose(s)
    \/ TimerFire
    \/ ViewResults

\* The monitor with the timers of setTimeout served: a callback that is due
\* is run by the event loop.
SpecLive == Init /\ [][NextLive]_vars /\ WF_vars(TimerFire)

(***************************************************************************)
(* The Results page.  SpecResults follows the route /results/:id from the  *)
(* moment it is opened; the Process page is left as Init has it.           *)
(***************************************************************************)
MaxCards == 2

\* Cards as the service returns them (name, type_line).
CardPool ==
    { [name |-> "Sol Ring",        quantity |-> 1,
       type_line |-> "Artifact"],
      [name |-> "Dryad Arbor",     quantity |-> 2,
       type_line |-> "Land Creature - Forest Dryad"],
      [name |-> "Nyxborn Courser", quantity |-> 1,
       type_line |-> "Enchantment Creature - Centaur Scout"],
      [name |-> "Backup Plan",     quantity |-> 4,
       type_line |-> "Conspiracy"],
      [name |-> "Mystery Booster", quantity |-> 1,
       type_line |-> "Other" ] }

CardLists == UNION { [1..n -> CardPool] : n \in 0..MaxCards }

\* The deck payloads of GET /deck/{id}
Decks == { [commander |-> "Atraxa, Praetors' Voice", cards |-> cs] :
             cs \in CardLists }

\* String.prototype.includes, on the characters of the two strings
Includes(type, key) ==
    \E i \in 1..(Len(type) - Len(key) + 1) :
        SubSeq(type, i, i + Len(key) - 1) = key

\* const categories = { "Creature": [], ..., "Land": [] }: the keys in
\* insertion order and the list of each key
InitialCategories ==
    [ keys  |-> <<"Creature", "Planeswalker", "Instant", "Sorcery",
                  "Artifact", "Enchantment", "Land">>,
      lists |-> [ k \in {"Creature", "Planeswalker", "Instant", "Sorcery",
                         "Artifact", "Enchantment", "Land"} |-> <<>> ] ]

\* A mutation of FirstMatch: the last key that the type line includes.
LastMatch(type, keys) ==
    LET M == { i \in 1..Len(keys) : Includes(type, keys[i]) }
    IN  IF M = {} THEN 0 ELSE CHOOSE i \in M : \A j \in M : j <= i

\* for (const key of Object.keys(categories)) { if (type.includes(key)) ...
\* break; }: the position of the first key the type line includes, 0 if none
RECURSIVE FirstMatchFrom(_, _, _)
FirstMatchFrom(type, keys, i) ==
    IF i > Len(keys) THEN 0
    ELSE IF Includes(type, keys[i]) THEN i
    ELSE FirstMatchFrom(type, keys, i + 1)

FirstMatch(type, keys) == FirstMatchFrom(type, keys, 1)

\* categories[key].push(card)
Push(cats, key, card) ==
    [cats EXCEPT !.lists = [@ EXCEPT ![key] = Append(@, card)]]

\* A mutation of PushOther: a card that matches no category is skipped.
DropOther(cats, card) == cats

\* if (!categories["Other"]) categories["Other"] = [];
\* categories["Other"].push(card);
PushOther(cats, card) ==
    IF "Other" \in DOMAIN cats.lists
      THEN Push(cats, "Other", card)
      ELSE [ keys  |-> Append(cats.keys, "Other"),
             lists |-> [ k \in DOMAIN cats.lists \cup {"Other"} |->
                           IF k = "Other" THEN <<card>> ELSE cats.lists[k] ] ]

\* The body of deck.cards.forEach for one card
CategorizeCard(cats, card) ==
    LET m == FirstMatch(card.type_line, cats.keys)
    IN  IF m # 0 THEN Push(cats, cats.keys[m], card)
                 ELSE PushOther(cats, card)

\* deck.cards.forEach(card => ...), from card i on
RECURSIVE CategorizeFrom(_, _, _)
CategorizeFrom(cats, cards, i) ==
    IF i > Len(cards) THEN cats
    ELSE CategorizeFrom(CategorizeCard(cats, cards[i]), cards, i + 1)

\* A mutation of Render: the buckets of the previous render are kept, and
\* the cards are pushed onto them.
RenderAccumulating(d) ==
    IF d = Null THEN Null
    ELSE CategorizeFrom(IF categories = Null THEN InitialCategories
                                             ELSE categories, d.cards, 1)

\* One render of Results: "Loading..." while deck is null, else the
\* categories are built from scratch.
Render(d) ==
    IF d = Null THEN Null ELSE CategorizeFrom(InitialCategories, d.cards, 1)

\* A step that shows no alert and handles no failed request
Quiet == alerted' = <<>> /\ failed' = <<>>

\* useEffect(..., [id]): fetchDeck() is started for job j
FetchDeck(j) == deckFetches' = deckFetches \cup {j}

\* The router shows /results/j: a new Results instance is mounted.
OpenResults(j) ==
    /\ page # "results"
    /\ page' = "results"
    /\ id' = j
    /\ deck' = Null
    /\ deckOf' = 0
    /\ categories' = Render(Null)
    /\ deckFetches' = {j}
    /\ Quiet
    /\ UNCHANGED <<mvars, evars, gvars, ivars, called, sent>>

\* The :id parameter changes under the mounted Results instance.
ChangeResultsId(j) ==
    /\ page = "results"
    /\ j # id
    /\ id' = j
    /\ FetchDeck(j)
    /\ categories' = Render(deck)
    /\ Quiet
    /\ UNCHANGED <<page, deck, deckOf, mvars, evars, gvars, ivars, called,
                   sent>>

\* fetchDeck resumes after the await: setDeck(res.data), then the render.
DeckResponse(j, d) ==
    /\ page = "results"
    /\ j \in deckFetches
    /\ deckFetches' = deckFetches \ {j}
    /\ deck' = d
    /\ deckOf' = j
    /\ categories' = Render(d)
    /\ Quiet
    /\ UNCHANGED <<page, id, mvars, evars, gvars, ivars, called, sent>>

\* fetchDeck: the request fails; the catch block logs to the console.
DeckFail(j) ==
    /\ page = "results"
    /\ j \in deckFetches
    /\ deckFetches' = deckFetches \ {j}
    /\ failed' = <<"GET /deck">>
    /\ alerted' = <<>>
    /\ UNCHANGED <<page, id, deck, deckOf, categories, mvars, evars, gvars, ivars,
                   called, sent>>

\* The user leaves the results view: Results unmounts, and the requests it
\* left in flight have no effect any more.
CloseResults ==
    /\ page = "results"
    /\ page' = "generator"
    /\ deckFetches' = {}
    /\ Quiet
    /\ UNCHANGED <<id, deck, deckOf, categories, mvars, evars, gvars, ivars, called,
                   sent>>

NextResults ==
    \/ \E j \in JobIds : OpenResults(j)
    \/ \E j \in JobIds : ChangeResultsId(j)
    \/ \E j \in deckFetches, d \in Decks : DeckResponse(j, d)
    \/ \E j \in deckFetches : DeckFail(j)
    \/ CloseResults

SpecResults == Init /\ [][NextResults]_vars

(***************************************************************************)
(* The export actions.  SpecExport starts from a Results page that shows   *)
(* any deck and applies the two export buttons.                            *)
(***************************************************************************)

\* A mutation of Line: the card's quantity is written instead of 1.
LineWithQuantity(c) == ToString(c.quantity) \o " " \o c.name

\* c => `1 ${c.name}`
Line(c) == "1 " \o c.name

\* Array.prototype.join
RECURSIVE Join(_, _)
Join(strs, sep) ==
    IF Len(strs) = 0 THEN ""
    ELSE IF Len(strs) = 1 THEN strs[1]
    ELSE strs[1] \o sep \o Join(Tail(strs), sep)

\* deck.cards.map(c => `1 ${c.name}`).join('\n')
ExportAsText(d) == Join([i \in 1..Len(d.cards) |-> Line(d.cards[i])], "\n")

\* the characters the class \s matches, of those a commander name can hold
IsSpace(ch) == ch \in {" ", "\t", "\n"}

\* str.replace(/\s+/g, '_'), from character i on: each maximal run of
\* whitespace becomes one underscore
RECURSIVE ReplaceSpacesFrom(_, _)
ReplaceSpacesFrom(str, i) ==
    IF i > Len(str) THEN ""
    ELSE IF IsSpace(SubSeq(str, i, i))
      THEN (IF i > 1 /\ IsSpace(SubSeq(str, i - 1, i - 1)) THEN "" ELSE "_")
           \o ReplaceSpacesFrom(str, i + 1)
      ELSE SubSeq(str, i, i) \o ReplaceSpacesFrom(str, i + 1)

\* `${deck.commander.replace(/\s+/g, '_')}_Deck.txt`
FileName(d) == ReplaceSpacesFrom(d.commander, 1) \o "_Deck.txt"

\* downloadDeck: the "Download Deck" button
DownloadDeck ==
    /\ page = "results"
    /\ deck # Null
    /\ download' = <<[name |-> FileName(deck), content |-> ExportAsText(deck)]>>
    /\ called' = <<"downloadDeck">>
    /\ Quiet
    /\ UNCHANGED <<page, id, mvars, rvars, clipboard, gvars, ivars, sent>>

\* copyDeck: the "Copy Deck" button
CopyDeck ==
    /\ page = "results"
    /\ deck # Null
    /\ clipboard' = <<ExportAsText(deck)>>
    /\ called' = <<"copyDeck">>
    /\ alerted' = <<"Deck list copied to clipboard!">>
    /\ failed' = <<>>
    /\ UNCHANGED <<page, id, mvars, rvars, download, gvars, ivars, sent>>

\* A Results page that has loaded and rendered a deck.
InitExport ==
    /\ page = "results"
    /\ id \in JobIds
    /\ InitMonitor
    /\ deck \in Decks
    /\ deckOf = id
    /\ deckFetches = {}
    /\ categories = Render(deck)
    /\ InitExported
    /\ InitGenerator
    /\ InitInventory
    /\ InitOutputs

NextExport ==
    \/ DownloadDeck
    \/ CopyDeck

SpecExport == InitExport /\ [][NextExport]_vars

(***************************************************************************)
(* The Generator page.  The service answers a request with any commander,  *)
(* any job id, or a failure.  A request is live while the Generator        *)
(* instance that sent it is mounted; the continuation of a request that is *)
(* not live still runs, but its state setters have no effect.              *)
(***************************************************************************)
MaxRequests == 2     \* requests of the Generator page in flight, at most

Prompts == {"", "a fast goblin aggro deck"}

\* What POST /generate/commander may answer
Commanders == { [name |-> "Krenko, Mob Boss"], [name |-> "Muxus, Goblin Grandee"] }

\* the <option> values of the mode <select>
Modes == {"Thinking", "Fast"}

\* What e.target.value of a number input may be after the user typed in it:
\* the empty string for no or invalid input, else the number as typed.
TypedNumbers == {"", "2", "7"}

Digits == <<"0", "1", "2", "3", "4", "5", "6", "7", "8", "9">>

IsDigit(ch) == \E d \in 1..10 : Digits[d] = ch

DigitVal(ch) == (CHOOSE d \in 1..10 : Digits[d] = ch) - 1

\* the value of the longest run of digits of str that starts at i
RECURSIVE ParseDigits(_, _, _)
ParseDigits(str, i, acc) ==
    IF i <= Len(str) /\ IsDigit(SubSeq(str, i, i))
      THEN ParseDigits(str, i + 1, acc * 10 + DigitVal(SubSeq(str, i, i)))
      ELSE acc

\* parseInt(str): an optional sign, then the leading digits; NaN without a
\* digit there
ParseInt(str) ==
    LET signed == Len(str) >= 1 /\ SubSeq(str, 1, 1) \in {"-", "+"}
        start  == IF signed THEN 2 ELSE 1
        neg    == signed /\ SubSeq(str, 1, 1) = "-"
    IN  IF start <= Len(str) /\ IsDigit(SubSeq(str, start, start))
          THEN Num((IF neg THEN -1 ELSE 1) * ParseDigits(str, start, 0))
          ELSE NaN

\* x > n in JavaScript: false for NaN
GreaterThan(x, n) == ~x.nan /\ x.val > n

\* `${x}`
NumToString(x) == IF x.nan THEN "NaN" ELSE ToString(x.val)

\* removal of the i-th element of a sequence
Remove(seq, i) == SubSeq(seq, 1, i - 1) \o SubSeq(seq, i + 1, Len(seq))

\* The Generator instance unmounts: its requests stay in flight, not live.
Stale(reqs) == [i \in 1..Len(reqs) |-> [reqs[i] EXCEPT !.live = FALSE]]

\* onChange of the prompt input
SetPrompt(p) ==
    /\ page = "generator"
    /\ p # prompt
    /\ prompt' = p
    /\ called' = <<>> /\ sent' = <<>> /\ Quiet
    /\ UNCHANGED <<page, id, mvars, rvars, evars, ivars, commander, loadingCmd,
                   mode, numAgents, numDecks, useOwned, cmdRequests,
                   deckRequests>>

\* generateCommander, up to the await
GenerateCommander ==
    /\ Len(cmdRequests) + Len(deckRequests) < MaxRequests
    /\ loadingCmd' = TRUE
    /\ cmdRequests' = Append(cmdRequests, [prompt |-> prompt, live |-> TRUE])
    /\ called' = <<"generateCommander">>
    /\ sent' = <<[url |-> "POST /generate/commander", body |-> [prompt |-> prompt]]>>
    /\ Quiet
    /\ UNCHANGED <<page, id, mvars, rvars, evars, ivars, prompt, commander,
                   mode, numAgents, numDecks, useOwned, deckRequests>>

\* The "Generate Commander" button: disabled={loadingCmd || !prompt}
ClickGenerateCommander ==
    /\ page = "generator"
    /\ ~(loadingCmd \/ prompt = "")
    /\ GenerateCommander

\* generateCommander resumes after the await with res.data = c.
CommanderResponse(i, c) ==
    /\ i \in 1..Len(cmdRequests)
    /\ cmdRequests' = Remove(cmdRequests, i)
    /\ commander' = IF cmdRequests[i].live THEN c ELSE commander
    /\ loadingCmd' = IF cmdRequests[i].live THEN FALSE ELSE loadingCmd
    /\ called' = <<>> /\ sent' = <<>> /\ Quiet
    /\ UNCHANGED <<page, id, mvars, rvars, evars, ivars, prompt, mode,
                   numAgents, numDecks, useOwned, deckRequests>>

\* A mutation of CommanderFail: setLoadingCmd(false) is reached on success
\* only.
CommanderFailKeepsLoading(i) ==
    /\ i \in 1..Len(cmdRequests)
    /\ cmdRequests' = Remove(cmdRequests, i)
    /\ alerted' = <<"Failed to generate commander">>
    /\ failed' = <<"POST /generate/commander">>
    /\ called' = <<>> /\ sent' = <<>>
    /\ UNCHANGED <<page, id, mvars, rvars, evars, ivars, prompt, commander,
                   loadingCmd, mode, numAgents, numDecks, useOwned,
                   deckRequests>>

\* A mutation of CommanderFail: the catch block also clears the commander.
CommanderFailClears(i) ==
    /\ i \in 1..Len(cmdRequests)
    /\ cmdRequests' = Remove(cmdRequests, i)
    /\ alerted' = <<"Failed to generate commander">>
    /\ failed' = <<"POST /generate/commander">>
    /\ commander' = IF cmdRequests[i].live THEN Null ELSE commander
    /\ loadingCmd' = IF cmdRequests[i].live THEN FALSE ELSE loadingCmd
    /\ called' = <<>> /\ sent' = <<>>
    /\ UNCHANGED <<page, id, mvars, rvars, evars, ivars, prompt,
                   mode, numAgents, numDecks, useOwned, deckRequests>>

\* generateCommander: the request fails; the catch block alerts.
CommanderFail(i) ==
    /\ i \in 1..Len(cmdRequests)
    /\ cmdRequests' = Remove(cmdRequests, i)
    /\ alerted' = <<"Failed to generate commander">>
    /\ failed' = <<"POST /generate/commander">>
    /\ loadingCmd' = IF cmdRequests[i].live THEN FALSE ELSE loadingCmd
    /\ called' = <<>> /\ sent' = <<>>
    /\ UNCHANGED <<page, id, mvars, rvars, evars, ivars, prompt, commander,
                   mode, numAgents, numDecks, useOwned, deckRequests>>

\* onChange of the mode <select>, rendered when a commander is set
SetMode(m) ==
    /\ page = "generator"
    /\ commander # Null
    /\ m # mode
    /\ mode' = m
    /\ called' = <<>> /\ sent' = <<>> /\ Quiet
    /\ UNCHANGED <<page, id, mvars, rvars, evars, ivars, prompt, commander,
                   loadingCmd, numAgents, numDecks, useOwned, cmdRequests,
                   deckRequests>>

\* onChange of the Agents input: setNumAgents(parseInt(e.target.value))
SetNumAgents(typed) ==
    /\ page = "generator"
    /\ commander # Null
    /\ ParseInt(typed) # numAgents
    /\ numAgents' = ParseInt(typed)
    /\ called' = <<>> /\ sent' = <<>> /\ Quiet
    /\ UNCHANGED <<page, id, mvars, rvars, evars, ivars, prompt, commander,
                   loadingCmd, mode, numDecks, useOwned, cmdRequests,
                   deckRequests>>

\* onChange of the Deck Count input: setNumDecks(parseInt(e.target.value))
SetNumDecks(typed) ==
    /\ page = "generator"
    /\ commander # Null
    /\ ParseInt(typed) # numDecks
    /\ numDecks' = ParseInt(typed)
    /\ called' = <<>> /\ sent' = <<>> /\ Quiet
    /\ UNCHANGED <<page, id, mvars, rvars, evars, ivars, prompt, commander,
                   loadingCmd, mode, numAgents, useOwned, cmdRequests,
                   deckRequests>>

\* onChange of the "Use Owned Cards Only" checkbox
SetUseOwned ==
    /\ page = "generator"
    /\ commander # Null
    /\ useOwned' = ~useOwned
    /\ called' = <<>> /\ sent' = <<>> /\ Quiet
    /\ UNCHANGED <<page, id, mvars, rvars, evars, ivars, prompt, commander,
                   loadingCmd, mode, numAgents, numDecks, cmdRequests,
                   deckRequests>>

\* the body of POST /generate/deck
DeckRequestBody ==
    [ commander_name  |-> commander.name,
      mode            |-> mode,
      num_agents      |-> numAgents,
      num_decks       |-> numDecks,
      use_owned_cards |-> useOwned ]

\* A mutation of GenerateDeck: the test of commander is missing, and the
\* request is sent with no commander name.
GenerateDeckUnguarded ==
    /\ Len(cmdRequests) + Len(deckRequests) < MaxRequests
    /\ called' = <<"generateDeck">>
    /\ Quiet
    /\ deckRequests' = Append(deckRequests,
                              [num_decks |-> numDecks, live |-> TRUE])
    /\ sent' = <<[url |-> "POST /generate/deck", body |-> [mode |-> mode]]>>
    /\ UNCHANGED <<page, id, mvars, rvars, evars, ivars, prompt, commander,
                   loadingCmd, mode, numAgents, numDecks, useOwned,
                   cmdRequests>>

\* generateDeck, up to the await: if (!commander) return; else the request
\* is sent.  The continuation keeps the numDecks of this render.
GenerateDeck ==
    /\ Len(cmdRequests) + Len(deckRequests) < MaxRequests
    /\ called' = <<"generateDeck">>
    /\ Quiet
    /\ IF commander = Null
         THEN /\ sent' = <<>>
              /\ UNCHANGED deckRequests
         ELSE /\ deckRequests' = Append(deckRequests,
                                        [num_decks |-> numDecks, live |-> TRUE])
              /\ sent' = <<[url |-> "POST /generate/deck",
                            body |-> DeckRequestBody]>>
    /\ UNCHANGED <<page, id, mvars, rvars, evars, ivars, prompt, commander,
                   loadingCmd, mode, numAgents, numDecks, useOwned,
                   cmdRequests>>

\* The "Generate Deck" button, rendered when a commander is set
ClickGenerateDeck ==
    /\ page = "generator"
    /\ commander # Null
    /\ GenerateDeck

\* alert(`Started generating ${numDecks} decks. Redirecting to the first one.`)
MultiDeckNotice(n) ==
    "Started generating " \o NumToString(n)
        \o " decks. Redirecting to the first one."

\* A mutation of DeckCreated: the notice is not shown.
DeckCreatedSilently(i, j) ==
    /\ i \in 1..Len(deckRequests)
    /\ alerted' = <<>>
    /\ page' = "process"
    /\ id' = j
    /\ deckRequests' = Stale(Remove(deckRequests, i))
    /\ cmdRequests' = Stale(cmdRequests)
    /\ called' = <<>> /\ sent' = <<>> /\ failed' = <<>>
    /\ UNCHANGED <<mvars, rvars, evars, ivars, prompt, commander, loadingCmd,
                   mode, numAgents, numDecks, useOwned>>

\* generateDeck resumes after the await with res.data.deck_id = j: the
\* notice if numDecks > 1, then navigate(`/process/${j}`), which unmounts
\* the Generator.
DeckCreated(i, j) ==
    /\ i \in 1..Len(deckRequests)
    /\ alerted' = IF GreaterThan(deckRequests[i].num_decks, 1)
                    THEN <<MultiDeckNotice(deckRequests[i].num_decks)>>
                    ELSE <<>>
    /\ page' = "process"
    /\ id' = j
    /\ deckRequests' = Stale(Remove(deckRequests, i))
    /\ cmdRequests' = Stale(cmdRequests)
    /\ called' = <<>> /\ sent' = <<>> /\ failed' = <<>>
    /\ UNCHANGED <<mvars, rvars, evars, ivars, prompt, commander, loadingCmd,
                   mode, numAgents, numDecks, useOwned>>

\* generateDeck: the request fails; the catch block alerts.
DeckFailed(i) ==
    /\ i \in 1..Len(deckRequests)
    /\ deckRequests' = Remove(deckRequests, i)
    /\ alerted' = <<"Failed to start generation">>
    /\ failed' = <<"POST /generate/deck">>
    /\ called' = <<>> /\ sent' = <<>>
    /\ UNCHANGED <<page, id, mvars, rvars, evars, ivars, prompt, commander,
                   loadingCmd, mode, numAgents, numDecks, useOwned,
                   cmdRequests>>

\* The user follows the "Generator" link: a new Generator instance mounts.
OpenGenerator ==
    /\ page # "generator"
    /\ page' = "generator"
    /\ prompt' = ""
    /\ commander' = Null
    /\ loadingCmd' = FALSE
    /\ mode' = "Thinking"
    /\ numAgents' = Num(1)
    /\ numDecks' = Num(1)
    /\ useOwned' = FALSE
    /\ called' = <<>> /\ sent' = <<>> /\ Quiet
    /\ UNCHANGED <<id, mvars, rvars, evars, ivars, cmdRequests, deckRequests>>

NextGenerator ==
    \/ \E p \in Prompts : SetPrompt(p)
    \/ ClickGenerateCommander
    \/ \E i \in 1..Len(cmdRequests), c \in Commanders : CommanderResponse(i, c)
    \/ \E i \in 1..Len(cmdRequests) : CommanderFail(i)
    \/ \E m \in Modes : SetMode(m)
    \/ \E t \in TypedNumbers : SetNumAgents(t)
    \/ \E t \in TypedNumbers : SetNumDecks(t)
    \/ SetUseOwned
    \/ ClickGenerateDeck
    \/ \E i \in 1..Len(deckRequests), j \in JobIds : DeckCreated(i, j)
    \/ \E i \in 1..Len(deckRequests) : DeckFailed(i)
    \/ OpenGenerator

SpecGenerator == Init /\ [][NextGenerator]_vars

(***************************************************************************)
(* The handler generateDeck on its own.  SpecSubmit starts from a mounted  *)
(* Generator page in any state, with or without a commander, and applies   *)
(* the handler and the continuations of its request.                       *)
(***************************************************************************)

\* the values numAgents and numDecks can hold
SettingNumbers == {Num(1)} \cup { ParseInt(t) : t \in TypedNumbers }

InitSubmit ==
    /\ page = "generator"
    /\ id = 1
    /\ InitMonitor
    /\ InitResultsPage
    /\ InitExported
    /\ prompt \in Prompts
    /\ commander \in {Null} \cup Commanders
    /\ loadingCmd = FALSE
    /\ mode \in Modes
    /\ numAgents \in SettingNumbers
    /\ numDecks \in SettingNumbers
    /\ useOwned \in BOOLEAN
    /\ cmdRequests = <<>>
    /\ deckRequests = <<>>
    /\ InitInventory
    /\ InitOutputs

\* generateDeck is invoked on the mounted Generator.
SubmitDeckRequest ==
    /\ page = "generator"
    /\ GenerateDeck

NextSubmit ==
    \/ SubmitDeckRequest
    \/ \E i \in 1..Len(deckRequests), j \in JobIds : DeckCreated(i, j)
    \/ \E i \in 1..Len(deckRequests) : DeckFailed(i)

SpecSubmit == InitSubmit /\ [][NextSubmit]_vars

(***************************************************************************)
(* The Inventory page.  The import text is the sequence of its lines, one  *)
(* card name a line.  A request in flight carries the answer of the        *)
(* service once the service has handled it (resp), and live says whether   *)
(* the Inventory instance that sent it is still mounted.  The service      *)
(* itself is the collaborator of spec.md: it stores the names it knows and *)
(* answers 207 with the names it does not.                                 *)
(***************************************************************************)

\* the card names the service recognises
KnownCards == {"Sol Ring", "Command Tower"}

\* what the user pastes into the textarea
ImportTexts == { <<"Sol Ring">>,
                 <<"Sol Ring", "Sol Rnig", "Command Tower">>,
                 <<"Mox Opall", "Sol Rnig">> }

\* the lines of text from line i on whose names the service knows
\* (known = TRUE) or does not know (known = FALSE), in order
RECURSIVE SelectLines(_, _, _)
SelectLines(text, i, known) ==
    IF i > Len(text) THEN <<>>
    ELSE IF (text[i] \in KnownCards) = known
           THEN <<text[i]>> \o SelectLines(text, i + 1, known)
           ELSE SelectLines(text, i + 1, known)

\* axios.get(`${API_URL}/inventory`), sent by fetchInventory.  The field
\* after is history: the names stored by the import this fetch follows.
InventoryRequest ==
    [kind |-> "get", text |-> <<>>, live |-> TRUE, resp |-> Null,
     after |-> {}]

\* axios.post(`${API_URL}/inventory/import`, null, {params: {text}})
ImportRequest(text) ==
    [kind |-> "import", text |-> text, live |-> TRUE, resp |-> Null,
     after |-> {}]

\* The user follows the "Inventory" link: Inventory mounts, and its effect
\* calls fetchInventory().
OpenInventory ==
    /\ page # "inventory"
    /\ Len(invRequests) < MaxRequests
    /\ page' = "inventory"
    /\ invCards' = {}
    /\ importText' = <<>>
    /\ error' = Null
    /\ invRequests' = Append(invRequests, InventoryRequest)
    /\ sent' = <<[url |-> "GET /inventory"]>>
    /\ called' = <<>> /\ Quiet
    /\ UNCHANGED <<id, mvars, rvars, evars, gvars, serverInv>>

\* The user leaves the page: Inventory unmounts, and what its requests set
\* afterwards is dropped.
LeaveInventory ==
    /\ page = "inventory"
    /\ page' = "generator"
    /\ invRequests' = Stale(invRequests)
    /\ called' = <<>> /\ sent' = <<>> /\ Quiet
    /\ UNCHANGED <<id, mvars, rvars, evars, gvars, invCards, importText,
                   error, serverInv>>

\* onChange of the textarea (or the file reader's onload): setImportText
SetImportText(text) ==
    /\ page = "inventory"
    /\ importText # text
    /\ importText' = text
    /\ called' = <<>> /\ sent' = <<>> /\ Quiet
    /\ UNCHANGED <<page, id, mvars, rvars, evars, gvars, invCards, error,
                   serverInv, invRequests>>

\* importCards, up to the await: the text is posted as it is
ImportCards ==
    /\ page = "inventory"
    /\ Len(invRequests) < MaxRequests
    /\ invRequests' = Append(invRequests, ImportRequest(importText))
    /\ called' = <<"importCards">>
    /\ sent' = <<[url |-> "POST /inventory/import", text |-> importText]>>
    /\ Quiet
    /\ UNCHANGED <<page, id, mvars, rvars, evars, gvars, invCards, importText,
                   error, serverInv>>

\* The service handles request i: an import stores the names it knows and
\* answers 207 with the others, or 200 when there are none; a GET answers
\* with the inventory as it is then.
Serve(i) ==
    /\ i \in 1..Len(invRequests)
    /\ invRequests[i].resp = Null
    /\ LET r      == invRequests[i]
           known  == SelectLines(r.text, 1, TRUE)
           failedNames == SelectLines(r.text, 1, FALSE)
           stored == { known[k] : k \in 1..Len(known) }
       IN  IF r.kind = "import"
             THEN /\ serverInv' = serverInv \cup stored
                  /\ invRequests' =
                       [invRequests EXCEPT ![i].resp =
                          [status |-> IF failedNames = <<>> THEN 200 ELSE 207,
                           failed |-> failedNames,
                           imported |-> stored]]
             ELSE /\ serverInv' = serverInv
                  /\ invRequests' =
                       [invRequests EXCEPT ![i].resp =
                          [status |-> 200, cards |-> serverInv]]
    /\ called' = <<>> /\ sent' = <<>> /\ Quiet
    /\ UNCHANGED <<page, id, mvars, rvars, evars, gvars, invCards, importText,
                   error>>

\* fetchInventory resumes after the await: setCards(res.data)
InventoryResponse(i) ==
    /\ i \in 1..Len(invRequests)
    /\ invRequests[i].kind = "get"
    /\ invRequests[i].resp # Null
    /\ invRequests' = Remove(invRequests, i)
    /\ invCards' = IF invRequests[i].live THEN invRequests[i].resp.cards
                   ELSE invCards
    /\ called' = <<>> /\ sent' = <<>> /\ Quiet
    /\ UNCHANGED <<page, id, mvars, rvars, evars, gvars, importText, error,
                   serverInv>>

\* fetchInventory: the request fails, before or after the service handled
\* it; the catch block logs to the console.
InventoryFail(i) ==
    /\ i \in 1..Len(invRequests)
    /\ invRequests[i].kind = "get"
    /\ invRequests' = Remove(invRequests, i)
    /\ failed' = <<"GET /inventory">>
    /\ alerted' = <<>>
    /\ called' = <<>> /\ sent' = <<>>
    /\ UNCHANGED <<page, id, mvars, rvars, evars, gvars, invCards, importText,
                   error, serverInv>>

\* the alert of importCards for a 207 answer
ImportNotice(names) == "Imported with failures:\n" \o Join(names, ", ")

\* A mutation of ImportResponse: the alert lists every name of the text.
ImportResponseWholeText(i) ==
    /\ i \in 1..Len(invRequests)
    /\ invRequests[i].kind = "import"
    /\ invRequests[i].resp # Null
    /\ alerted' = IF invRequests[i].resp.status = 207
                    THEN <<ImportNotice(invRequests[i].text)>>
                    ELSE <<>>
    /\ failed' = <<>>
    /\ importText' = IF invRequests[i].live THEN <<>> ELSE importText
    /\ invRequests' = Append(Remove(invRequests, i),
                             [InventoryRequest EXCEPT
                                !.live = invRequests[i].live,
                                !.after = invRequests[i].resp.imported])
    /\ sent' = <<[url |-> "GET /inventory"]>>
    /\ called' = <<>>
    /\ UNCHANGED <<page, id, mvars, rvars, evars, gvars, invCards, error,
                   serverInv>>

\* importCards resumes after the await: the alert when the status is 207,
\* then setImportText("") and fetchInventory().
ImportResponse(i) ==
    /\ i \in 1..Len(invRequests)
    /\ invRequests[i].kind = "import"
    /\ invRequests[i].resp # Null
    /\ alerted' = IF invRequests[i].resp.status = 207
                    THEN <<ImportNotice(invRequests[i].resp.failed)>>
                    ELSE <<>>
    /\ failed' = <<>>
    /\ importText' = IF invRequests[i].live THEN <<>> ELSE importText
    /\ invRequests' = Append(Remove(invRequests, i),
                             [InventoryRequest EXCEPT
                                !.live = invRequests[i].live,
                                !.after = invRequests[i].resp.imported])
    /\ sent' = <<[url |-> "GET /inventory"]>>
    /\ called' = <<>>
    /\ UNCHANGED <<page, id, mvars, rvars, evars, gvars, invCards, error,
                   serverInv>>

\* importCards: the request fails, before or after the service handled it;
\* the catch block calls setError("Import failed.").
ImportFail(i) ==
    /\ i \in 1..Len(invRequests)
    /\ invRequests[i].kind = "import"
    /\ invRequests' = Remove(invRequests, i)
    /\ error' = IF invRequests[i].live THEN [message |-> "Import failed."] ELSE error
    /\ failed' = <<"POST /inventory/import">>
    /\ alerted' = <<>>
    /\ called' = <<>> /\ sent' = <<>>
    /\ UNCHANGED <<page, id, mvars, rvars, evars, gvars, invCards, importText,
                   serverInv>>

NextInventory ==
    \/ OpenInventory
    \/ LeaveInventory
    \/ \E text \in ImportTexts \cup {<<>>} : SetImportText(text)
    \/ ImportCards
    \/ \E i \in 1..Len(invRequests) : Serve(i)
    \/ \E i \in 1..Len(invRequests) : InventoryResponse(i)
    \/ \E i \in 1..Len(invRequests) : InventoryFail(i)
    \/ \E i \in 1..Len(invRequests) : ImportResponse(i)
    \/ \E i \in 1..Len(invRequests) : ImportFail(i)

SpecInventory == Init /\ [][NextInventory]_vars

(***************************************************************************)
(* The job monitor's properties                                            *)
(***************************************************************************)

\* C1: an effect run whose status fetch returned "completed" never opened a
\* stream connection.
C1_NoStreamWhenCompleted == completedFetch \cap wsOpened = {}

\* C2: within one run of the effect, however often the sentinel is received,
\* at most one timer-driven navigation to the results view is performed: no
\* timer callback runs for an effect run a timer of which has navigated.
C2_AtMostOneTimerHandoff ==
    [][(timers # <<>> /\ timers' = Tail(timers))
          => Head(timers).act \notin timerNavs]_vars

\* C3: while no monitor is mounted, nothing is appended to the log, the
\* status is not changed and the route is not moved to a results view.
C3_DeactivatedIsInert ==
    [][(page # "process" /\ page' # "process")
          => /\ logs' = logs
             /\ status' = status
             /\ (page' = "results" => (page = "results" /\ id' = id))]_vars

\* C4: at most one stream connection is open, and none is open while no
\* monitor is mounted.
C4_StreamClosedOnDeactivation ==
    /\ Cardinality(sockets) <= 1
    /\ (page # "process" => sockets = {})

\* C4 witness: two effect runs each opened a connection, the monitor was
\* deactivated and no connection is left open.
C4_Witness == page # "process" /\ wsOpened = {1, 2} /\ sockets = {}

\* C5: within one run of the effect, once status is "completed" it stays
\* "completed".
C5_CompletedIsTerminal ==
    [][(page = "process" /\ status = "completed"
          /\ page' = "process" /\ act' = act)
          => status' = "completed"]_vars

\* C6: a step that appends a frame whose message is not the sentinel changes
\* nothing but the log: status, pending timers, route, connections, requests
\* and navigations are as before, and the earlier log entries are kept.
C6_NonSentinelOnlyAppends ==
    [][(Len(logs') = Len(logs) + 1 /\ logs'[Len(logs')].message # Sentinel)
          => /\ SubSeq(logs', 1, Len(logs)) = logs
             /\ UNCHANGED <<status, timers, page, id, sockets, fetches>>]_vars

\* C6 witness: a frame that is not the sentinel but carries a status field
\* "completed" is in the log, and the monitor is still pending with no
\* handoff scheduled.
C6_Witness ==
    /\ page = "process"
    /\ status = "pending"
    /\ timers = <<>>
    /\ \E i \in 1..Len(logs) :
          logs[i].message # Sentinel /\ logs[i].status = "completed"

\* C7: the log is always the sequence of frames received by the mounted
\* monitor, in arrival order, and a step of that monitor either leaves the
\* log alone or appends one frame at its end.
C7_LogIsArrivals ==
    /\ [](logs = arrived)
    /\ [][(page' = "process" /\ inst' = inst)
             => (logs' = logs \/ \E m \in Events : logs' = Append(logs, m))]_vars

\* C7 witness: the same frame was delivered twice and is in the log twice.
C7_Witness == page = "process" /\ Len(logs) = 2 /\ logs[1] = logs[2]

\* C8: whenever the route moves to the results view of a job, the completion
\* of that job has been observed, by a status fetch that returned
\* "completed" or by the sentinel.
C8_HandoffOnlyIfObserved ==
    [][(page' = "results" /\ (page # "results" \/ id' # id))
          => id' \in observed']_vars

(***************************************************************************)
(* The card classification's properties                                    *)
(***************************************************************************)
Categories == {"Creature", "Planeswalker", "Instant", "Sorcery", "Artifact",
               "Enchantment", "Land"}

\* the number of occurrences of card c in the list cs
Count(cs, c) == Cardinality({ i \in 1..Len(cs) : cs[i] = c })

RECURSIVE SumLen(_, _)
SumLen(lists, K) ==
    IF K = {} THEN 0
    ELSE LET k == CHOOSE x \in K : TRUE
         IN  Len(lists[k]) + SumLen(lists, K \ {k})

\* C9: whenever a deck is rendered, the buckets are among the seven
\* categories and Other, their sizes sum to the number of cards, every card
\* of the deck has all its occurrences in exactly one bucket, and a card
\* whose type line contains no category name is in Other.
C9_ClassificationIsPartition ==
    deck # Null =>
      /\ DOMAIN categories.lists \subseteq Categories \cup {"Other"}
      /\ SumLen(categories.lists, DOMAIN categories.lists) = Len(deck.cards)
      /\ \A c \in CardPool :
            /\ \E k \in DOMAIN categories.lists :
                  /\ Count(categories.lists[k], c) = Count(deck.cards, c)
                  /\ \A k2 \in DOMAIN categories.lists \ {k} :
                        Count(categories.lists[k2], c) = 0
            /\ (Count(deck.cards, c) > 0
                  /\ \A k \in Categories : ~Includes(c.type_line, k))
               => /\ "Other" \in DOMAIN categories.lists
                  /\ Count(categories.lists["Other"], c) = Count(deck.cards, c)

\* C9 witness: a rendered deck of two cards in two buckets, one of them
\* with a type line that names no category.
C9_Witness ==
    /\ deck # Null
    /\ Len(deck.cards) = 2
    /\ deck.cards[1].type_line = "Conspiracy"
    /\ deck.cards[2].type_line = "Artifact"
    /\ categories.lists["Other"] = <<deck.cards[1]>>

\* the fixed order of the categories
CategoryOrder == <<"Creature", "Planeswalker", "Instant", "Sorcery",
                   "Artifact", "Enchantment", "Land">>

\* C10: whenever a deck is rendered, every card whose type line contains a
\* category name is in the bucket of the earliest such category of the fixed
\* order, and in no other bucket; so Creature and Land gives Creature, and
\* Creature and Enchantment gives Creature.
C10_FirstCategoryWins ==
    deck # Null =>
      \A i \in 1..Len(deck.cards) :
         LET c == deck.cards[i]
             M == { n \in 1..7 : Includes(c.type_line, CategoryOrder[n]) }
         IN  M # {} =>
               LET first == CHOOSE n \in M : \A n2 \in M : n <= n2
               IN  /\ Count(categories.lists[CategoryOrder[first]], c) > 0
                   /\ \A k \in DOMAIN categories.lists \ {CategoryOrder[first]} :
                         Count(categories.lists[k], c) = 0
                   /\ (1 \in M /\ 7 \in M) => Count(categories.lists["Land"], c) = 0
                   /\ (1 \in M /\ 6 \in M) => Count(categories.lists["Enchantment"], c) = 0

\* C10 witness: a rendered deck holding a card whose type line names Land
\* before Creature, and a card that is an Enchantment and a Creature.
C10_Witness ==
    /\ deck # Null
    /\ \E i \in 1..Len(deck.cards) :
          deck.cards[i].type_line = "Land Creature - Forest Dryad"
    /\ \E i \in 1..Len(deck.cards) :
          deck.cards[i].type_line = "Enchantment Creature - Centaur Scout"

(***************************************************************************)
(* The export's properties                                                 *)
(***************************************************************************)

\* the position in the exported text at which the line of card i starts
RECURSIVE LineStart(_, _)
LineStart(cs, i) ==
    IF i = 1 THEN 1 ELSE LineStart(cs, i - 1) + Len(cs[i - 1].name) + 3

\* the text t is one line "1 <name>" per card of cs, in order, the lines
\* separated by one newline, with nothing before, between or after them
IsDeckList(t, cs) ==
    /\ Len(cs) = 0 => t = ""
    /\ Len(cs) > 0 =>
          Len(t) = LineStart(cs, Len(cs)) + Len(cs[Len(cs)].name) + 1
    /\ \A i \in 1..Len(cs) :
          LET b == LineStart(cs, i)
              e == b + 1 + Len(cs[i].name)
          IN  /\ SubSeq(t, b, b + 1) = "1 "
              /\ SubSeq(t, b + 2, e) = cs[i].name
              /\ i < Len(cs) => SubSeq(t, e + 1, e + 1) = "\n"

\* C11: the text written to the clipboard and the content of the downloaded
\* file are each the deck list of the deck shown, one line "1 <name>" per
\* card in deck order whatever the quantities, and they are the same text.
C11_ExportAsText ==
    /\ clipboard # <<>> => IsDeckList(clipboard[1], deck.cards)
    /\ download # <<>> => IsDeckList(download[1].content, deck.cards)
    /\ (clipboard # <<>> /\ download # <<>>)
          => clipboard[1] = download[1].content

\* C11 witness: a deck of two cards, the first with quantity 4, has been
\* copied and downloaded.
C11_Witness ==
    /\ clipboard # <<>>
    /\ download # <<>>
    /\ Len(deck.cards) = 2
    /\ deck.cards[1].quantity = 4

(***************************************************************************)
(* The job submitter's properties                                          *)
(***************************************************************************)

\* C12: a step that handles the failure of a commander request leaves the
\* commander as it was, shows the error with alert() and sends no request.
C12_CommanderFailure ==
    [][failed' = <<"POST /generate/commander">>
          => /\ commander' = commander
             /\ alerted' = <<"Failed to generate commander">>
             /\ sent' = <<>>
             /\ Len(cmdRequests') = Len(cmdRequests) - 1
             /\ deckRequests' = deckRequests]_vars

\* C12 witness: a commander request has just failed, and the commander
\* generated before it is still held.
C12_Witness ==
    /\ page = "generator"
    /\ failed = <<"POST /generate/commander">>
    /\ alerted = <<"Failed to generate commander">>
    /\ commander \in Commanders
    /\ cmdRequests = <<>>

\* C13: a call of generateDeck in a state without a commander sends no
\* request, shows no notice, does not navigate and leaves the state of the
\* Generator page as it was.
C13_SubmitWithoutCommander ==
    [][(called' = <<"generateDeck">> /\ commander = Null)
          => /\ sent' = <<>>
             /\ alerted' = <<>>
             /\ UNCHANGED <<page, id, gvars>>]_vars

\* C13 witness: generateDeck has just been called without a commander, with
\* a deck count above one.
C13_Witness ==
    /\ called = <<"generateDeck">>
    /\ commander = Null
    /\ numDecks = Num(2)
    /\ deckRequests = <<>>
    /\ page = "generator"

\* C14: the step that handles the answer to a deck request: on success it
\* moves the route to /process/<one job id>, after the notice if the
\* request's deck count is above 1 and with no alert if it is 1; on failure
\* it leaves the route as it is.
C14_DeckRequestOutcome ==
    [][Len(deckRequests') < Len(deckRequests)
          => IF failed' = <<>>
               THEN /\ page' = "process"
                    /\ id' \in JobIds
                    /\ \E i \in 1..Len(deckRequests) :
                          LET n == deckRequests[i].num_decks
                          IN  /\ Len(deckRequests') = Len(deckRequests) - 1
                              /\ (~n.nan /\ n.val > 1) =>
                                    alerted' = <<"Started generating "
                                        \o ToString(n.val)
                                        \o " decks. Redirecting to the first one.">>
                              /\ (~n.nan /\ n.val = 1) => alerted' = <<>>
               ELSE /\ page' = page
                    /\ id' = id]_vars

\* C14 witness: the notice for two decks has just been shown and the route
\* is the monitor of job 2.
C14_Witness ==
    /\ alerted = <<"Started generating 2 decks. Redirecting to the first one.">>
    /\ page = "process"
    /\ id = 2

\* C15: every deck request sent has its mode among Thinking and Fast, its
\* agent count in 1..3 and its deck count in 1..4.
C15_RequestInRange ==
    \A i \in 1..Len(sent) :
       sent[i].url = "POST /generate/deck" =>
          /\ sent[i].body.mode \in {"Thinking", "Fast"}
          /\ ~sent[i].body.num_agents.nan
          /\ sent[i].body.num_agents.val \in 1..3
          /\ ~sent[i].body.num_decks.nan
          /\ sent[i].body.num_decks.val \in 1..4

\* C16: every step that handles a failed request shows a message, with
\* alert() or in the error line of the page.
C16_FailuresSurfaced ==
    [][failed' # <<>> => (alerted' # <<>> \/ error' # Null)]_vars

\* the number of import requests in flight
ImportsInFlight(reqs) ==
    Cardinality({ k \in 1..Len(reqs) : reqs[k].kind = "import" })

\* C17: the step that handles a 207 answer to an import alerts exactly the
\* failed names of the answer, sends nothing but the GET of the inventory
\* and leaves the service's inventory, with the names the import stored, as
\* it is; and the answer to that GET shows the names the import stored.
C17_PartialImport ==
    [][/\ (ImportsInFlight(invRequests') < ImportsInFlight(invRequests)
            /\ failed' = <<>>)
          => \E i \in 1..Len(invRequests) :
                LET r == invRequests[i]
                    n == Len(invRequests)
                IN  /\ r.kind = "import"
                    /\ r.resp # Null
                    /\ Len(invRequests') = n
                    /\ SubSeq(invRequests', 1, n - 1) = Remove(invRequests, i)
                    /\ invRequests'[n].kind = "get"
                    /\ invRequests'[n].resp = Null
                    /\ sent' = <<[url |-> "GET /inventory"]>>
                    /\ serverInv' = serverInv
                    /\ r.resp.imported \subseteq serverInv'
                    /\ r.live => importText' = <<>>
                    /\ alerted' = IF r.resp.status = 207
                                    THEN <<"Imported with failures:\n"
                                             \o Join(r.resp.failed, ", ")>>
                                    ELSE <<>>
       /\ \A i \in 1..Len(invRequests) :
             LET r == invRequests[i]
             IN  ( /\ r.kind = "get"
                   /\ r.resp # Null
                   /\ r.live
                   /\ failed' = <<>>
                   /\ invRequests' = Remove(invRequests, i) )
                 => r.after \subseteq invCards']_vars

\* C17 witness: the text with two known names and one unknown name was
\* imported, the one failed name was reported, both cards are stored and the
\* inventory is being fetched again.
C17_Witness ==
    /\ page = "inventory"
    /\ alerted = <<"Imported with failures:\nSol Rnig">>
    /\ serverInv = {"Sol Ring", "Command Tower"}
    /\ importText = <<>>
    /\ Len(invRequests) = 1
    /\ invRequests[1].kind = "get"
    /\ invRequests[1].after = {"Sol Ring", "Command Tower"}

\* C18: the step that handles the sentinel sets the status "completed",
\* schedules one timer and keeps the monitoring view; the handoff of a timer
\* is a step of its own, which handles no frame.
C18_HandoffIsDelayed ==
    [][/\ ( /\ Len(arrived') = Len(arrived) + 1
            /\ IsSentinel(arrived'[Len(arrived')]) )
          => /\ status' = "completed"
             /\ page' = "process"
             /\ id' = id
             /\ timers' = Append(timers, timers'[Len(timers')])
             /\ timers'[Len(timers')].id = id
       /\ Len(timers') < Len(timers)
          => /\ page' = "results"
             /\ id' = Head(timers).id
             /\ UNCHANGED <<status, logs, arrived>>]_vars

\* C18 witness: the sentinel was handled, the status is "completed", and the
\* monitoring view is still shown while the timer is pending.
C18_Witness ==
    /\ page = "process"
    /\ status = "completed"
    /\ Len(timers) = 1
    /\ timers[1].id = id
    /\ Len(logs) = 1
    /\ IsSentinel(logs[1])

\* C19: a step in which the service closes the stream of the mounted monitor
\* before any sentinel arrived leaves status, log, timers and route as they
\* were.
C19_RemoteCloseKeepsState ==
    [][( /\ sockets' # sockets
         /\ sockets' \subseteq sockets
         /\ UNCHANGED <<page, id, act, inst>>
         /\ \A k \in 1..Len(arrived) : ~IsSentinel(arrived[k]) )
          => UNCHANGED <<status, logs, arrived, timers, timerNavs, fetches>>]_vars

\* C19 witness: the stream was closed by the service after one frame that is
\* not the sentinel; the monitor is still shown, with its status and log.
C19_Witness ==
    /\ page = "process"
    /\ sockets = {}
    /\ status = "pending"
    /\ Len(logs) = 1
    /\ ~IsSentinel(logs[1])
    /\ timers = <<>>

C21_DeckOfCurrentJob ==
    (page = "results" /\ deck # Null) => deckOf = id

\* C22: once the mounted monitor has received the sentinel, the monitoring
\* view is eventually left: the timer hands off to the results view, unless
\* the view was left before; whatever became of the status fetch.
C22_HandoffEventually ==
    (page = "process" /\ \E k \in 1..Len(arrived) : IsSentinel(arrived[k]))
       ~> (page # "process")

\* C22 witness: the results view was reached by a timer of an effect run
\* whose status fetch is still unanswered.
C22_Witness ==
    /\ page = "results"
    /\ timerNavs # {}
    /\ \E f \in fetches : f.act \in timerNavs
    /\ completedFetch = {}

\* the commander requests in flight that the mounted Generator sent
LiveCommanderRequests ==
    { i \in 1..Len(cmdRequests) : cmdRequests[i].live }

====
